---- MODULE Spec2Model ----
(***************************************************************************)
(* Model of wroge/esperanto: the expression algebra (Raw, Values,          *)
(* Compiler, Joiner, Condition, Switch), the ToSQL dispatcher, Replace and *)
(* Finalize.  SQL text is a sequence of one-character strings; an          *)
(* expression, a result and an error are records tagged by "kind".         *)
(***************************************************************************)
EXTENDS Integers, Sequences, FiniteSets, TLC

\* ------------------------------------------------------------------ bounds
\* longest template of a Compiler built from leaves
MaxTemplateLen == 3
\* most leaves handed to one constructor call
MaxExprs == 3
\* deepest nesting of constructor calls (a leaf has depth 0)
MaxDepth == 2

\* ------------------------------------------------------------ error values
NoErr == [kind |-> "nil"]

ExpressionError == [kind |-> "ExpressionError"]

NumberOfArgumentsError(sql, placeholders, arguments) ==
    [kind |-> "NumberOfArgumentsError", SQL |-> sql,
     Placeholders |-> placeholders, Arguments |-> arguments]

Error(err) == [kind |-> "Error", Err |-> err]

\* a run-time panic (slice bounds out of range) unwinding the call stack
Panic == [kind |-> "panic"]

\* a render result (sql, args, err); argsNil tells a nil slice from an empty one
Ok(sql, args, argsNil) == [sql |-> sql, args |-> args, argsNil |-> argsNil, err |-> NoErr]

\* return "", nil, err
Fail(err) == [sql |-> <<>>, args |-> <<>>, argsNil |-> TRUE, err |-> err]

IsErr(r) == r.err.kind # "nil"

\* ------------------------------------------------------------- expressions
Nil == [kind |-> "nil"]

\* a Switch key that is not in the map
Absent == [kind |-> "absent"]

\* SQL(sql, args...): no variadic argument leaves Args nil
Raw(sql, args) == [kind |-> "Raw", SQL |-> sql, Args |-> args]

Values(v) == [kind |-> "Values", V |-> v]

Compile(template, expressions) ==
    [kind |-> "Compiler", Template |-> template, Expressions |-> expressions]

IfElse(condition, then, els) ==
    [kind |-> "Condition", If |-> condition, Then |-> then, Else |-> els]

If(condition, then) == IfElse(condition, then, Nil)

Join(sep, expressions) == [kind |-> "Joiner", Sep |-> sep, Expressions |-> expressions]

\* Switch map[Dialect]any: M maps every dialect to its entry or to Absent
Switch(isNil, m) == [kind |-> "Switch", IsNil |-> isNil, M |-> m]

\* (an Error value is itself an expression: its ToSQL returns it as the error)

\* a value with none of the three ToSQL method sets (an int, say)
Invalid == [kind |-> "Invalid"]

\* ----------------------------------------------------------------- strings
RECURSIVE IndexFrom(_, _, _)
IndexFrom(s, c, i) ==
    IF i > Len(s) THEN -1
    ELSE IF s[i] = c THEN i - 1
    ELSE IndexFrom(s, c, i + 1)

\* strings.IndexRune: 0-based index of the first c in s, or -1
IndexRune(s, c) == IndexFrom(s, c, 1)

\* Go s[lo:hi]
Slice(s, lo, hi) == SubSeq(s, lo + 1, hi)

\* Go s[i]
At(s, i) == s[i + 1]

RECURSIVE Repeat(_, _)
Repeat(s, n) == IF n <= 0 THEN <<>> ELSE s \o Repeat(s, n - 1)

DigitChar(d) == <<"0", "1", "2", "3", "4", "5", "6", "7", "8", "9">>[d + 1]

RECURSIVE Itoa(_)
Itoa(n) ==
    IF n < 0 THEN <<"-">> \o Itoa(0 - n)
    ELSE IF n < 10 THEN <<DigitChar(n)>>
    ELSE Itoa(n \div 10) \o <<DigitChar(n % 10)>>

\* fmt.Sprintf(format, position) for a format whose only verb is %d
RECURSIVE Sprintf(_, _)
Sprintf(format, position) ==
    IF format = <<>> THEN <<>>
    ELSE IF Len(format) >= 2 /\ format[1] = "%" /\ format[2] = "d"
         THEN Itoa(position) \o Slice(format, 2, Len(format))
    ELSE <<format[1]>> \o Sprintf(Tail(format), position)

\* ------------------------------------------------------------ placeholders
StaticPlaceholder(s) == [kind |-> "Static", S |-> s]

PositionalPlaceholder(s) == [kind |-> "Positional", S |-> s]

NilPlaceholder == [kind |-> "nil", S |-> <<>>]

Question == StaticPlaceholder(<<"?">>)

Dollar == PositionalPlaceholder(<<"$", "%", "d">>)

\* mutant: the position counter is not passed on, every token is the first one
PlaceholderOne(placeholder, position) ==
    IF placeholder.kind = "Static" THEN placeholder.S
    ELSE Sprintf(placeholder.S, 1)

\* placeholder.Placeholder(position)
Placeholder(placeholder, position) ==
    IF placeholder.kind = "Static" THEN placeholder.S
    ELSE Sprintf(placeholder.S, position)

\* ----------------------------------------------------------- error messages
\* a message is a sequence of pieces: the literals of the format and the
\* characters of the values put into it

\* "argument" or "placeholder", with an "s" when n > 1
Plural(word, n) == IF n > 1 THEN <<word, "s">> ELSE <<word>>

\* NumberOfArgumentsError.Error: "%d %s and %d %s in '%s'"
NumberOfArgumentsMessage(e) ==
    Itoa(e.Placeholders) \o <<" ">> \o Plural("placeholder", e.Placeholders) \o <<" and ">>
    \o Itoa(e.Arguments) \o <<" ">> \o Plural("argument", e.Arguments) \o <<" in '">>
    \o e.SQL \o <<"'">>

\* ExpressionError.Error
ExpressionMessage == <<"expression is invalid: Take a look at esperanto.ToSQL">>

RECURSIVE Message(_)
\* err.Error(); Error.Error adds its prefix unless the error it holds is an Error
Message(err) ==
    CASE err.kind = "Error" ->
            IF err.Err.kind = "nil" THEN <<"esperanto.Error">>
            ELSE IF err.Err.kind = "Error" THEN Message(err.Err)
            ELSE <<"esperanto.Error: ">> \o Message(err.Err)
      [] err.kind = "ExpressionError" -> ExpressionMessage
      [] err.kind = "NumberOfArgumentsError" -> NumberOfArgumentsMessage(err)
      [] OTHER -> <<>>

\* ---------------------------------------------------------------- rendering
\* mutant: the wrapper drops the error it was given
FailWrapBare(err) == IF err.kind = "panic" THEN Fail(err) ELSE Fail(Error(NoErr))

\* return "", nil, Error{Err: err}; a panic is no error value and unwinds as it is
FailWrap(err) == IF err.kind = "panic" THEN Fail(err) ELSE Fail(Error(err))

\* mutant: the repeated text is cut after its first character only
ValuesToSQLCutOne(v) ==
    LET rep == Repeat(<<",", " ", "?">>, Len(v)) IN
    IF Len(rep) < 1 THEN Fail(Panic)
    ELSE Ok(<<"(">> \o Slice(rep, 1, Len(rep)) \o <<")">>, v, FALSE)

\* Values.ToSQL: "(" + strings.Repeat(", ?", len(v))[2:] + ")", v, nil
ValuesToSQL(v) ==
    LET rep == Repeat(<<",", " ", "?">>, Len(v)) IN
    IF Len(rep) < 2 THEN Fail(Panic)
    ELSE Ok(<<"(">> \o Slice(rep, 2, Len(rep)) \o <<")">>, v, FALSE)

\* Raw.ToSQL: r.SQL, r.Args, nil
RawToSQL(r) == Ok(r.SQL, r.Args, r.Args = <<>>)

\* Error.ToSQL: "", nil, e
ErrorToSQL(e) == Fail(e)

\* mutant: no marker starts an escape
NoEscape(s, index) == FALSE

\* index < len(s)-1 && s[index+1] == '?': the marker at index starts an escape
IsEscape(s, index) == index < Len(s) - 1 /\ At(s, index + 1) = "?"

\* mutant: the new arguments are put in front of the collected ones
PrependArgs(arguments, args) == args \o arguments

\* arguments = append(arguments, args...)
AppendArgs(arguments, args) == arguments \o args

\* mutant: the check after the scan only refuses a child index past the last child
CountMismatchPast(exprIndex, n) == exprIndex > n - 1

\* exprIndex != len(c.Expressions)-1, the check after the scan of the template
CountMismatch(exprIndex, n) == exprIndex # n - 1

\* mutant: the child's text written before the template text that precedes it
WriteChildFirst(builder, piece, sql) == builder \o sql \o piece

\* builder.WriteString(c.Template[:index]) ... builder.WriteString(sql)
WriteChild(builder, piece, sql) == builder \o piece \o sql

\* mutant: the separator is written from the third entry on
WriteSepAfterSecond(builder, index, sep) == IF index > 1 THEN builder \o sep ELSE builder

\* if index != 0 { builder.WriteString(j.Sep) }
WriteSep(builder, index, sep) == IF index # 0 THEN builder \o sep ELSE builder

RECURSIVE ToSQL(_, _)
RECURSIVE CompilerLoop(_, _, _, _, _, _)
RECURSIVE JoinerLoop(_, _, _, _, _, _)
RECURSIVE ConditionToSQL(_, _)
RECURSIVE SwitchToSQL(_, _)

\* mutant: the text of a child is put back in front of the unread template, so
\* that its markers are read as markers of the template
CompilerLoopRescan(dialect, template, expressions, builder, arguments, exprIndex) ==
    LET index == IndexRune(template, "?") IN
    IF index < 0
    THEN LET built == builder \o template IN
         IF CountMismatch(exprIndex, Len(expressions))
         THEN Fail(Error(NumberOfArgumentsError(built, exprIndex, Len(expressions))))
         ELSE Ok(built, arguments, FALSE)
    ELSE IF IsEscape(template, index)
    THEN CompilerLoop(dialect, Slice(template, index + 2, Len(template)), expressions,
                      builder \o Slice(template, 0, index + 2), arguments, exprIndex)
    ELSE LET next == exprIndex + 1 IN
         IF next >= Len(expressions)
         THEN Fail(Error(NumberOfArgumentsError(builder, next, Len(expressions))))
         ELSE IF At(expressions, next).kind = "nil"
         THEN Fail(Error(ExpressionError))
         ELSE LET r == ToSQL(dialect, At(expressions, next)) IN
              IF IsErr(r) THEN FailWrap(r.err)
              ELSE CompilerLoop(dialect, r.sql \o Slice(template, index + 1, Len(template)),
                                expressions,
                                builder \o Slice(template, 0, index),
                                AppendArgs(arguments, r.args), next)

\* the loop of Compiler.ToSQL and the check that follows it; template is the
\* unread rest of c.Template, exprIndex starts at -1
CompilerLoop(dialect, template, expressions, builder, arguments, exprIndex) ==
    LET index == IndexRune(template, "?") IN
    IF index < 0
    THEN LET built == builder \o template IN
         IF CountMismatch(exprIndex, Len(expressions))
         THEN Fail(Error(NumberOfArgumentsError(built, exprIndex, Len(expressions))))
         ELSE Ok(built, arguments, FALSE)
    ELSE IF IsEscape(template, index)
    THEN CompilerLoop(dialect, Slice(template, index + 2, Len(template)), expressions,
                      builder \o Slice(template, 0, index + 2), arguments, exprIndex)
    ELSE LET next == exprIndex + 1 IN
         IF next >= Len(expressions)
         THEN Fail(Error(NumberOfArgumentsError(builder, next, Len(expressions))))
         ELSE IF At(expressions, next).kind = "nil"
         THEN Fail(Error(ExpressionError))
         ELSE LET r == ToSQL(dialect, At(expressions, next)) IN
              IF IsErr(r) THEN FailWrap(r.err)
              ELSE CompilerLoop(dialect, Slice(template, index + 1, Len(template)),
                                expressions,
                                WriteChild(builder, Slice(template, 0, index), r.sql),
                                AppendArgs(arguments, r.args), next)

\* mutant: the children are rendered under one fixed dialect
CompilerToSQLPostgres(dialect, c) ==
    CompilerLoop("postgres", c.Template, c.Expressions, <<>>, <<>>, -1)

\* Compiler.ToSQL
CompilerToSQL(dialect, c) ==
    CompilerLoop(dialect, c.Template, c.Expressions, <<>>, <<>>, -1)

\* mutant: the Then branch is rendered whatever c.If is
ConditionToSQLThen(dialect, c) ==
    IF c.Then.kind = "nil" THEN Ok(<<>>, <<>>, TRUE)
    ELSE LET r == ToSQL(dialect, c.Then) IN
         IF IsErr(r) THEN FailWrap(r.err) ELSE r

\* Condition.ToSQL
ConditionToSQL(dialect, c) ==
    IF c.If
    THEN IF c.Then.kind = "nil" THEN Ok(<<>>, <<>>, TRUE)
         ELSE LET r == ToSQL(dialect, c.Then) IN
              IF IsErr(r) THEN FailWrap(r.err) ELSE r
    ELSE IF c.Else.kind = "nil" THEN Ok(<<>>, <<>>, TRUE)
         ELSE LET r == ToSQL(dialect, c.Else) IN
              IF IsErr(r) THEN FailWrap(r.err) ELSE r

\* mutant: an entry with empty text still gives its arguments
JoinerLoopKeepArgs(dialect, sep, expressions, index, builder, arguments) ==
    IF index >= Len(expressions) THEN Ok(builder, arguments, FALSE)
    ELSE LET expression == At(expressions, index) IN
         IF expression.kind = "nil"
         THEN JoinerLoop(dialect, sep, expressions, index + 1, builder, arguments)
         ELSE LET r == ToSQL(dialect, expression) IN
              IF IsErr(r) THEN FailWrap(r.err)
              ELSE IF r.sql = <<>>
              THEN JoinerLoop(dialect, sep, expressions, index + 1, builder,
                              AppendArgs(arguments, r.args))
              ELSE JoinerLoop(dialect, sep, expressions, index + 1,
                              WriteSep(builder, index, sep) \o r.sql,
                              AppendArgs(arguments, r.args))

\* the range loop of Joiner.ToSQL; index is the 0-based position in j.Expressions
JoinerLoop(dialect, sep, expressions, index, builder, arguments) ==
    IF index >= Len(expressions) THEN Ok(builder, arguments, FALSE)
    ELSE LET expression == At(expressions, index) IN
         IF expression.kind = "nil"
         THEN JoinerLoop(dialect, sep, expressions, index + 1, builder, arguments)
         ELSE LET r == ToSQL(dialect, expression) IN
              IF IsErr(r) THEN FailWrap(r.err)
              ELSE IF r.sql = <<>>
              THEN JoinerLoop(dialect, sep, expressions, index + 1, builder, arguments)
              ELSE JoinerLoop(dialect, sep, expressions, index + 1,
                              WriteSep(builder, index, sep) \o r.sql,
                              AppendArgs(arguments, r.args))

\* Joiner.ToSQL
JoinerToSQL(dialect, j) == JoinerLoop(dialect, j.Sep, j.Expressions, 0, <<>>, <<>>)

\* mutant: the method of the entry is called without a look at the entry, which
\* panics on a nil entry
SwitchToSQLDirect(dialect, s) ==
    IF s.IsNil THEN Ok(<<>>, <<>>, TRUE)
    ELSE IF s.M[dialect].kind # "absent"
    THEN IF s.M[dialect].kind = "nil" THEN Fail(Panic)
         ELSE LET r == ToSQL(dialect, s.M[dialect]) IN
              IF IsErr(r) THEN FailWrap(r.err) ELSE r
    ELSE Ok(<<>>, <<>>, TRUE)

\* mutant: a dialect without an entry is an error
SwitchToSQLStrict(dialect, s) ==
    IF s.IsNil THEN Fail(Error([kind |-> "DialectError"]))
    ELSE IF s.M[dialect].kind # "absent"
    THEN LET r == ToSQL(dialect, s.M[dialect]) IN
         IF IsErr(r) THEN FailWrap(r.err) ELSE r
    ELSE Fail(Error([kind |-> "DialectError"]))

\* Switch.ToSQL
SwitchToSQL(dialect, s) ==
    IF s.IsNil THEN Ok(<<>>, <<>>, TRUE)
    ELSE IF s.M[dialect].kind # "absent"
    THEN LET r == ToSQL(dialect, s.M[dialect]) IN
         IF IsErr(r) THEN FailWrap(r.err) ELSE r
    ELSE Ok(<<>>, <<>>, TRUE)

\* the type switch of ToSQL: the method of the expression that the dispatcher calls
Method(dialect, expression) ==
    CASE expression.kind = "Compiler" -> CompilerToSQL(dialect, expression)
      [] expression.kind = "Condition" -> ConditionToSQL(dialect, expression)
      [] expression.kind = "Joiner" -> JoinerToSQL(dialect, expression)
      [] expression.kind = "Switch" -> SwitchToSQL(dialect, expression)
      [] expression.kind = "Values" -> ValuesToSQL(expression.V)
      [] expression.kind = "Raw" -> RawToSQL(expression)
      [] expression.kind = "Error" -> ErrorToSQL(expression)
      [] OTHER -> Fail(Error(ExpressionError))

\* mutant: a nil expression renders to nothing instead of failing
ToSQLNilEmpty(dialect, expression) ==
    IF expression.kind = "nil" THEN Ok(<<>>, <<>>, TRUE)
    ELSE IF expression.kind \notin {"Compiler", "Condition", "Joiner", "Switch", "Values",
                                    "Raw", "Error"}
    THEN Fail(Error(ExpressionError))
    ELSE LET r == Method(dialect, expression) IN
         IF IsErr(r) THEN FailWrap(r.err) ELSE r

\* ToSQL(dialect, expression): dispatch, then wrap a failure
ToSQL(dialect, expression) ==
    IF expression.kind \notin {"Compiler", "Condition", "Joiner", "Switch", "Values",
                               "Raw", "Error"}
    THEN Fail(Error(ExpressionError))
    ELSE LET r == Method(dialect, expression) IN
         IF IsErr(r) THEN FailWrap(r.err) ELSE r

\* the loop of Replace; sql is the unread rest, count the markers replaced so far
RECURSIVE ReplaceLoop(_, _, _, _, _)
ReplaceLoop(placeholder, question, sql, build, count) ==
    LET index == IndexRune(sql, "?") IN
    IF index < 0 THEN [sql |-> build \o sql, count |-> count]
    ELSE IF IsEscape(sql, index)
    THEN ReplaceLoop(placeholder, question, Slice(sql, index + 2, Len(sql)),
                     build \o Slice(sql, 0, index) \o question, count)
    ELSE ReplaceLoop(placeholder, question, Slice(sql, index + 1, Len(sql)),
                     build \o Slice(sql, 0, index) \o Placeholder(placeholder, count + 1),
                     count + 1)

\* mutant: an escape is always rewritten to a single marker
EscapeTextSingle(placeholder) == <<"?">>

\* question := "?"; if placeholder.Placeholder(1) == "?" { question = "??" }
EscapeText(placeholder) ==
    IF Placeholder(placeholder, 1) = <<"?">> THEN <<"?", "?">> ELSE <<"?">>

\* if placeholder == nil { placeholder = Question }
OrQuestion(placeholder) == IF placeholder.kind = "nil" THEN Question ELSE placeholder

\* Replace(placeholder, sql): the rewritten text and the number of markers replaced
Replace(placeholder, sql) ==
    ReplaceLoop(OrQuestion(placeholder), EscapeText(OrQuestion(placeholder)), sql, <<>>, 0)

\* mutant: the check lets fewer markers than arguments through
ArgsMismatchMore(count, n) == count > n

\* count != len(args), the check of Finalize
ArgsMismatch(count, n) == count # n

\* mutant: on a count mismatch the rewritten text and the arguments are returned
\* along with the error
FinalizePartial(placeholder, dialect, expression) ==
    LET r == ToSQL(dialect, expression) IN
    IF IsErr(r) THEN FailWrap(r.err)
    ELSE LET rep == Replace(placeholder, r.sql) IN
         IF ArgsMismatch(rep.count, Len(r.args))
         THEN [sql |-> rep.sql, args |-> r.args, argsNil |-> r.argsNil,
               err |-> Error(NumberOfArgumentsError(rep.sql, rep.count, Len(r.args)))]
         ELSE [r EXCEPT !.sql = rep.sql]

\* Finalize(placeholder, dialect, expression)
Finalize(placeholder, dialect, expression) ==
    LET r == ToSQL(dialect, expression) IN
    IF IsErr(r) THEN FailWrap(r.err)
    ELSE LET rep == Replace(placeholder, r.sql) IN
         IF ArgsMismatch(rep.count, Len(r.args))
         THEN Fail(Error(NumberOfArgumentsError(rep.sql, rep.count, Len(r.args))))
         ELSE [r EXCEPT !.sql = rep.sql]

Colon == PositionalPlaceholder(<<":", "%", "d">>)

AtP == PositionalPlaceholder(<<"@", "p", "%", "d">>)

\* mutant: every dialect gets the static scheme
DialectPlaceholderStatic(d) == Question

\* the switch of Dialect.Finalize: the scheme of the dialect d
DialectPlaceholder(d) ==
    CASE d \in {"mysql", "sqlite"} -> Question
      [] d = "postgres" -> Dollar
      [] d = "oracle" -> Colon
      [] d = "sqlserver" -> AtP
      [] OTHER -> Question

\* Dialect.Finalize(expression)
DialectFinalize(d, expression) == Finalize(DialectPlaceholder(d), d, expression)

\* ------------------------------------------------------------------ inputs
Dialects == {"postgres", "sqlite"}

Placeholders == {Question, Dollar, NilPlaceholder}

RECURSIVE SeqsUpTo(_, _)
\* the sequences over S of length at most n
SeqsUpTo(S, n) ==
    IF n <= 0 THEN {<<>>}
    ELSE LET shorter == SeqsUpTo(S, n - 1) IN
         shorter \cup {Append(q, x) : q \in shorter, x \in S}

Templates == SeqsUpTo({"a", "?"}, MaxTemplateLen)

Seps == {<<>>, <<",">>}

\* the leaves a caller hands to a constructor: SQL("a"), SQL("?", 1) (a Value),
\* SQL("", 4) (empty text), Values{} (no value), nil
Leaves == {Raw(<<"a">>, <<>>), Raw(<<"?">>, <<1>>), Raw(<<>>, <<4>>), Values(<<>>), Nil}

\* the value lists of a Values that is rendered or finalized on its own
ValueLists == SeqsUpTo({1, 2}, MaxExprs)

Tuples == {Values(v) : v \in ValueLists}

\* the leaves, templates and separators of the nested trees
Seeds == {Raw(<<"?">>, <<1>>), Values(<<2, 3>>)}

NestTemplates == {<<"?">>, <<"?", "a", "?">>}

NestSeps == {<<",">>}

IsLeaf(e) == e.kind \in {"Raw", "Values", "nil", "Error", "Invalid", "absent"}

\* the child expressions of a node, in render order
Children(e) ==
    CASE e.kind \in {"Compiler", "Joiner"} -> e.Expressions
      [] e.kind = "Condition" -> <<e.Then, e.Else>>
      [] e.kind = "Switch" -> <<e.M["postgres"], e.M["sqlite"]>>
      [] OTHER -> <<>>

Max(a, b) == IF a >= b THEN a ELSE b

RECURSIVE Depth(_)
RECURSIVE DepthOf(_, _)
DepthOf(expressions, i) ==
    IF i > Len(expressions) THEN 0
    ELSE Max(Depth(expressions[i]), DepthOf(expressions, i + 1))

Depth(e) == IF IsLeaf(e) THEN 0 ELSE 1 + DepthOf(Children(e), 1)

Range(q) == {q[i] : i \in 1..Len(q)}

LeavesOrAbsent == Leaves \cup {Absent}

SeedsOrAbsent == Seeds \cup {Nil, Absent}

\* a tree built from leaves only, with any template and separator
Flat(e) ==
    /\ ~IsLeaf(e)
    /\ Len(Children(e)) <= MaxExprs
    /\ \A i \in 1..Len(Children(e)) : Children(e)[i] \in LeavesOrAbsent
    /\ e.kind = "Compiler" => Len(e.Template) <= MaxTemplateLen

RECURSIVE Nested(_)
\* seeds, or one tree alone, or one tree of depth 1 next to one seed
NestedList(q) ==
    /\ Len(q) <= 2
    /\ \/ \A i \in 1..Len(q) : IsLeaf(q[i]) /\ q[i] \in Seeds
       \/ Len(q) = 1 /\ Nested(q[1])
       \/ /\ Len(q) = 2
          /\ \E i \in 1..2 : /\ IsLeaf(q[i]) /\ q[i] \in Seeds
                             /\ ~IsLeaf(q[3 - i]) /\ Depth(q[3 - i]) = 1 /\ Nested(q[3 - i])

\* a tree of seeds, nested along one path
Nested(e) ==
    /\ ~IsLeaf(e)
    /\ e.kind = "Compiler" => e.Template \in NestTemplates
    /\ e.kind = "Joiner" => e.Sep \in NestSeps
    /\ e.kind \in {"Compiler", "Joiner"} => \A i \in 1..Len(e.Expressions) : e.Expressions[i].kind # "nil"
    /\ NestedList(SelectSeq(Children(e), LAMBDA c : c.kind \notin {"nil", "absent"}))

\* what a caller holds before a constructor call or a render
Admissible(q) ==
    \/ Len(q) <= MaxExprs /\ \A i \in 1..Len(q) : q[i] \in Leaves
    \/ Len(q) = 1 /\ Flat(q[1])
    \/ Len(q) = 1 /\ q[1] \in Tuples
    \/ NestedList(q) /\ DepthOf(q, 1) <= (IF Len(q) = 1 THEN MaxDepth ELSE MaxDepth - 1)

\* -------------------------------------------------------------------- state
\* exprs: the expressions the caller holds, to be handed to the next call
\* res:   the last ToSQL or Finalize call and what it returned
VARIABLES exprs, res

\* shared:  a tree that several callers render at the same time
\* renders: for each of these callers, where its render is and its local values
VARIABLES shared, renders

\* txn: the running call of Exec, QueryAndExec, ... and where it is
\* log: the calls it has made so far to the database, in order
VARIABLES txn, log

vars == <<exprs, res, shared, renders, txn, log>>

NoCall == [op |-> "none"]

\* no tree is shared and no transaction runs
NoSharing == shared = Nil /\ renders = <<>>

NoExecution == txn = [pc |-> "none"] /\ log = <<>>

Init == exprs = <<>> /\ res = NoCall /\ NoSharing /\ NoExecution

\* the caller may go on to hold q
CanHold(q) == res = NoCall /\ Admissible(q)

\* the caller writes one more leaf, after or before what it holds
NewLeaf ==
    /\ \E l \in Leaves \cup Seeds \cup Tuples, front \in BOOLEAN :
          LET q == IF front THEN <<l>> \o exprs ELSE Append(exprs, l) IN
          CanHold(q) /\ exprs' = q
    /\ UNCHANGED <<res, shared, renders, txn, log>>

\* Compile(template, exprs...)
DoCompile ==
    /\ \E t \in Templates : CanHold(<<Compile(t, exprs)>>) /\ exprs' = <<Compile(t, exprs)>>
    /\ UNCHANGED <<res, shared, renders, txn, log>>

\* Join(sep, exprs...)
DoJoin ==
    /\ \E sep \in Seps : CanHold(<<Join(sep, exprs)>>) /\ exprs' = <<Join(sep, exprs)>>
    /\ UNCHANGED <<res, shared, renders, txn, log>>

\* If(condition, then) and IfElse(condition, then, els)
DoIfElse ==
    /\ Len(exprs) \in {1, 2}
    /\ \E b \in BOOLEAN :
          LET q == <<IfElse(b, exprs[1], IF Len(exprs) = 2 THEN exprs[2] ELSE Nil)>> IN
          CanHold(q) /\ exprs' = q
    /\ UNCHANGED <<res, shared, renders, txn, log>>

\* Switch{dialect: expression, ...} and Switch(nil)
DoSwitch ==
    /\ Len(exprs) <= 2
    /\ \E isNil \in BOOLEAN, d \in Dialects :
          LET q == <<Switch(isNil,
                      [x \in Dialects |->
                          IF Len(exprs) >= 1 /\ x = d THEN exprs[1]
                          ELSE IF Len(exprs) = 2 THEN exprs[2] ELSE Absent])>> IN
          /\ isNil => exprs = <<>>
          /\ CanHold(q)
          /\ exprs' = q
    /\ UNCHANGED <<res, shared, renders, txn, log>>

\* the expression a call is made on: the one held, or nil when none is
Target == IF exprs = <<>> THEN Nil ELSE exprs[1]

\* Target.ToSQL(dialect), the method called directly
DoToSQL ==
    /\ res = NoCall
    /\ Len(exprs) = 1
    /\ Target.kind \in {"Compiler", "Condition", "Joiner", "Switch", "Values", "Raw", "Error"}
    /\ \E d \in Dialects : res' = [op |-> "ToSQL", dialect |-> d, out |-> Method(d, Target)]
    /\ UNCHANGED <<exprs, shared, renders, txn, log>>

\* Finalize(placeholder, dialect, Target)
DoFinalize ==
    /\ res = NoCall
    /\ Len(exprs) <= 1
    /\ \E p \in Placeholders, d \in Dialects :
          res' = [op |-> "Finalize", placeholder |-> p, dialect |-> d,
                  out |-> Finalize(p, d, Target)]
    /\ UNCHANGED <<exprs, shared, renders, txn, log>>

\* dialect.Finalize(Target)
DoDialectFinalize ==
    /\ res = NoCall
    /\ Len(exprs) <= 1
    /\ \E d \in Dialects :
          res' = [op |-> "DialectFinalize", placeholder |-> DialectPlaceholder(d),
                  dialect |-> d, out |-> DialectFinalize(d, Target)]
    /\ UNCHANGED <<exprs, shared, renders, txn, log>>

\* Replace(placeholder, sql) on a text the caller wrote
DoReplace ==
    /\ res = NoCall
    /\ exprs = <<>>
    /\ \E p \in Placeholders, sql \in Templates :
          res' = [op |-> "Replace", placeholder |-> p, sql |-> sql, out |-> Replace(p, sql)]
    /\ UNCHANGED <<exprs, shared, renders, txn, log>>

\* the caller is done with the result of the last call
Discard == res # NoCall /\ res' = NoCall /\ UNCHANGED <<exprs, shared, renders, txn, log>>

Next ==
    \/ NewLeaf \/ DoCompile \/ DoJoin \/ DoIfElse \/ DoSwitch
    \/ DoToSQL \/ DoFinalize \/ DoDialectFinalize \/ DoReplace \/ Discard

Spec == Init /\ [][Next]_vars

\* ------------------------------------------------ renders of a shared tree
\* Several callers render one Compiler at the same time. Compiler.ToSQL has a
\* value receiver: a call works on its own copy c of the node, and one step of
\* a render is one pass of the loop of Compiler.ToSQL on that copy. The other
\* ToSQL methods assign to no field; a child is rendered within the pass.

Callers == {"r1", "r2"}

\* the children of the shared trees: one that renders alike under every
\* dialect, one that renders under postgres and fails under sqlite
SharedLeaves ==
    {Raw(<<"?">>, <<1>>),
     Switch(FALSE, [d \in Dialects |-> IF d = "postgres" THEN Values(<<2, 3>>) ELSE Nil])}

SharedTrees ==
    {Compile(t, q) : t \in Templates, q \in SeqsUpTo(SharedLeaves, MaxExprs)}

Idle == [pc |-> "idle"]

\* a call of ToSQL(dialect) on node: c is the copy the value receiver makes
Entered(node, dialect) ==
    [pc |-> "loop", dialect |-> dialect, c |-> node,
     builder |-> <<>>, arguments |-> <<>>, exprIndex |-> -1]

Returning(r, out) == [pc |-> "done", dialect |-> r.dialect, out |-> out]

\* mutant: a pointer receiver, the assignment reaches the shared node
AssignTemplateShared(node, c, rest) ==
    [node |-> [node EXCEPT !.Template = rest], c |-> [c EXCEPT !.Template = rest]]

\* c.Template = c.Template[...]: c is the receiver's copy, the node is not written
AssignTemplate(node, c, rest) ==
    [node |-> node, c |-> [c EXCEPT !.Template = rest]]

\* one pass of the loop of Compiler.ToSQL by the render r (the check after the
\* loop belongs to the pass that breaks): the node and the render afterwards
LoopPass(node, r) ==
    LET template == r.c.Template
        expressions == r.c.Expressions
        index == IndexRune(template, "?")
        next == r.exprIndex + 1
    IN
    IF index < 0
    THEN LET built == r.builder \o template IN
         [node |-> node,
          r |-> Returning(r,
                  IF CountMismatch(r.exprIndex, Len(expressions))
                  THEN Fail(Error(NumberOfArgumentsError(built, r.exprIndex, Len(expressions))))
                  ELSE Ok(built, r.arguments, FALSE))]
    ELSE IF IsEscape(template, index)
    THEN LET w == AssignTemplate(node, r.c, Slice(template, index + 2, Len(template))) IN
         [node |-> w.node,
          r |-> [r EXCEPT !.c = w.c, !.builder = @ \o Slice(template, 0, index + 2)]]
    ELSE IF next >= Len(expressions)
    THEN [node |-> node,
          r |-> Returning(r, Fail(Error(NumberOfArgumentsError(r.builder, next,
                                                               Len(expressions)))))]
    ELSE IF At(expressions, next).kind = "nil"
    THEN [node |-> node, r |-> Returning(r, Fail(Error(ExpressionError)))]
    ELSE LET w == AssignTemplate(node, r.c, Slice(template, index + 1, Len(template)))
             out == ToSQL(r.dialect, At(expressions, next))
         IN
         IF IsErr(out)
         THEN [node |-> w.node, r |-> Returning(r, FailWrap(out.err))]
         ELSE [node |-> w.node,
               r |-> [r EXCEPT !.c = w.c,
                               !.builder = WriteChild(@, Slice(template, 0, index), out.sql),
                               !.arguments = AppendArgs(@, out.args),
                               !.exprIndex = next]]

ShareInit ==
    /\ exprs = <<>> /\ res = NoCall /\ NoExecution
    /\ shared \in SharedTrees
    /\ renders = [p \in Callers |-> Idle]

\* a caller calls shared.ToSQL(dialect)
ShareCall(p) ==
    /\ renders[p].pc = "idle"
    /\ \E d \in Dialects : renders' = [renders EXCEPT ![p] = Entered(shared, d)]
    /\ UNCHANGED <<exprs, res, shared, txn, log>>

\* a running render makes its next pass
SharePass(p) ==
    /\ renders[p].pc = "loop"
    /\ shared' = LoopPass(shared, renders[p]).node
    /\ renders' = [renders EXCEPT ![p] = LoopPass(shared, renders[p]).r]
    /\ UNCHANGED <<exprs, res, txn, log>>

\* the caller takes the result; it may call again
ShareReturn(p) ==
    /\ renders[p].pc = "done"
    /\ renders' = [renders EXCEPT ![p] = Idle]
    /\ UNCHANGED <<exprs, res, shared, txn, log>>

ShareNext ==
    \/ \E p \in Callers : ShareCall(p)
    \/ \E p \in Callers : SharePass(p)
    \/ \E p \in Callers : ShareReturn(p)

ShareSpec == ShareInit /\ [][ShareNext]_vars

\* ------------------------------------------------------ the execution layer
\* esperanto.go: Exec, Query, QueryOne, QueryAndExec, QueryAndExecOne over
\* StdDB and StdTx. A step is one call the function makes on its DB or Tx (the
\* whole method of StdDB or StdTx) or one call of scan. superbasic.Finalize,
\* scan.All, scan.One and database/sql are other packages: each of their
\* calls returns any of the outcomes listed here.

\* the most executables a call is given
MaxExecutables == 2

\* an error of database/sql or of scan, named after the call that returned it
DriverError(call) == [kind |-> "DriverError", call |-> call]

DriverOutcomes(call) == {NoErr, DriverError(call)}

\* what superbasic.Finalize returns for the expression of a queryable or of
\* an executable: a statement with its arguments, or an error
Finalized ==
    {Ok(<<"a">>, <<>>, FALSE), Ok(<<"a", "?">>, <<1>>, FALSE),
     Fail([kind |-> "FinalizeError"])}

\* []MODEL: nil, or a list; for QueryAndExecOne the list holds the one MODEL
NilModels == [nil |-> TRUE, rows |-> <<>>]

Models(rows) == [nil |-> FALSE, rows |-> rows]

\* what scan.All returns: models and no error, or an error
ScanAllOutcomes ==
    {[models |-> m, err |-> NoErr] : m \in {NilModels, Models(<<>>), Models(<<1>>)}}
        \cup {[models |-> NilModels, err |-> DriverError("Scan")]}

\* what scan.One returns for a row whose Scan reports rowErr: that error, or
\* when the row has none a model or an error of its own; model is the zero
\* MODEL on failure
ScanOneOutcomes(rowErr) ==
    IF rowErr # NoErr THEN {[models |-> Models(<<0>>), err |-> rowErr]}
    ELSE {[models |-> Models(<<1>>), err |-> NoErr],
          [models |-> Models(<<0>>), err |-> DriverError("Scan")]}

RollbackError(err, wrap) == [kind |-> "RollbackError", Err |-> err, Wrap |-> wrap]

\* RollbackError.Unwrap
Unwrap(re) == re.Wrap

RowError(err) == [kind |-> "RowError", Err |-> err]

\* a *sql.Row: it holds the error of its query until Scan
SqlRow(err) == [kind |-> "Row", Err |-> err]

\* Row.Scan as far as its error goes; RowError.Scan returns re.Err
RowScan(row) == row.Err

\* the calls on record
Called(call, err) == [call |-> call, err |-> err]

Built(what) == [call |-> "Build", what |-> what, err |-> NoErr]

FinalizeCalled(what, fin) == [call |-> "Finalize", what |-> what, out |-> fin, err |-> fin.err]

Sent(call, what, sql, args, err) ==
    [call |-> call, what |-> what, sql |-> sql, args |-> args, err |-> err]

\* mutant: the statement is sent whatever Finalize returned
StatementUngated(call, what, fin, drvErr) ==
    <<FinalizeCalled(what, fin), Sent(call, what, fin.sql, fin.args, drvErr)>>

\* StdDB/StdTx Query, QueryRow, Exec: Finalize, and on success the driver call
\* with what Finalize returned; the calls made, fin and drvErr being what
\* Finalize and the driver return
Statement(call, what, fin, drvErr) ==
    IF IsErr(fin) THEN <<FinalizeCalled(what, fin)>>
    ELSE <<FinalizeCalled(what, fin), Sent(call, what, fin.sql, fin.args, drvErr)>>

\* the error StdDB/StdTx Query and Exec return
StatementErr(fin, drvErr) == IF IsErr(fin) THEN fin.err ELSE drvErr

\* the row StdDB/StdTx QueryRow returns
StatementRow(fin, drvErr) == IF IsErr(fin) THEN RowError(fin.err) ELSE SqlRow(drvErr)

\* mutant: the cause is dropped when the driver rollback fails
StdTxRollbackBare(rollbackErr, err) ==
    IF rollbackErr # NoErr THEN rollbackErr ELSE err

\* StdTx.Rollback(ctx, err), rollbackErr being what s.Tx.Rollback returns
StdTxRollback(rollbackErr, err) ==
    IF rollbackErr # NoErr THEN RollbackError(rollbackErr, err) ELSE err

\* mutant: a failed step returns at once
AfterStepReturn(err, onward) == IF err # NoErr THEN "done" ELSE onward

\* mutant: a failed step is passed over
AfterStepOn(err, onward) == onward

\* if err != nil { return ..., txn.Rollback(ctx, err) }: where the function is
\* after a step that returned err
AfterStep(err, onward) == IF err # NoErr THEN "rollback" ELSE onward

Transactions == {"Exec", "QueryAndExec", "QueryAndExecOne"}

\* the value of "model" or of the model list before any is scanned
ZeroOf(fn) == IF fn \in {"QueryAndExecOne", "QueryOne"} THEN Models(<<0>>) ELSE NilModels

NoRow == SqlRow(NoErr)

Return(models, err) == [models |-> models, err |-> err]

IdleTxn ==
    [pc |-> "idle", fn |-> "none", n |-> 0, i |-> 0, err |-> NoErr,
     models |-> NilModels, row |-> NoRow, ret |-> Return(NilModels, NoErr)]

TxInit ==
    /\ exprs = <<>> /\ res = NoCall /\ NoSharing
    /\ txn = IdleTxn /\ log = <<>>

\* Exec, QueryAndExec or QueryAndExecOne is called with n executables: db.Begin
TxBegin ==
    /\ txn.pc = "idle"
    /\ \E fn \in Transactions, n \in 0..MaxExecutables, err \in DriverOutcomes("Begin") :
          /\ log' = <<Called("Begin", err)>>
          /\ txn' = [IdleTxn EXCEPT
                        !.fn = fn, !.n = n, !.models = ZeroOf(fn),
                        !.pc = IF err # NoErr THEN "done"
                               ELSE IF fn = "Exec" THEN "execs" ELSE "query",
                        !.ret = Return(ZeroOf(fn), err)]
    /\ UNCHANGED <<exprs, res, shared, renders>>

\* QueryAndExec: queryable(dialect, options), then txn.Query
TxQuery ==
    /\ txn.pc = "query" /\ txn.fn = "QueryAndExec"
    /\ \E fin \in Finalized, drvErr \in DriverOutcomes("Query") :
          /\ log' = log \o <<Built(0)>> \o Statement("QueryContext", 0, fin, drvErr)
          /\ txn' = [txn EXCEPT !.err = StatementErr(fin, drvErr),
                                !.pc = AfterStep(StatementErr(fin, drvErr), "scan")]
    /\ UNCHANGED <<exprs, res, shared, renders>>

\* QueryAndExecOne: queryable(dialect, options), then txn.QueryRow
TxQueryRow ==
    /\ txn.pc = "query" /\ txn.fn = "QueryAndExecOne"
    /\ \E fin \in Finalized, drvErr \in DriverOutcomes("QueryRow") :
          /\ log' = log \o <<Built(0)>> \o Statement("QueryRowContext", 0, fin, drvErr)
          /\ txn' = [txn EXCEPT !.row = StatementRow(fin, drvErr), !.pc = "scan"]
    /\ UNCHANGED <<exprs, res, shared, renders>>

\* QueryAndExec: scan.All(rows, columns...)
TxScanAll ==
    /\ txn.pc = "scan" /\ txn.fn = "QueryAndExec"
    /\ \E out \in ScanAllOutcomes :
          /\ log' = Append(log, Called("Scan", out.err))
          /\ txn' = [txn EXCEPT !.models = out.models, !.err = out.err,
                                !.pc = AfterStep(out.err, "execs")]
    /\ UNCHANGED <<exprs, res, shared, renders>>

\* QueryAndExecOne: scan.One(row, columns...)
TxScanOne ==
    /\ txn.pc = "scan" /\ txn.fn = "QueryAndExecOne"
    /\ \E out \in ScanOneOutcomes(RowScan(txn.row)) :
          /\ log' = Append(log, Called("Scan", out.err))
          /\ txn' = [txn EXCEPT !.models = out.models, !.err = out.err,
                                !.pc = AfterStep(out.err, "execs")]
    /\ UNCHANGED <<exprs, res, shared, renders>>

\* one pass of the loop over the executables: exec(dialect, ...), then txn.Exec
TxExec ==
    /\ txn.pc = "execs" /\ txn.i < txn.n
    /\ \E fin \in Finalized, drvErr \in DriverOutcomes("Exec") :
          /\ log' = log \o <<Built(txn.i + 1)>>
                        \o Statement("ExecContext", txn.i + 1, fin, drvErr)
          /\ txn' = [txn EXCEPT !.i = @ + 1, !.err = StatementErr(fin, drvErr),
                                !.pc = AfterStep(StatementErr(fin, drvErr), "execs")]
    /\ UNCHANGED <<exprs, res, shared, renders>>

\* the loop is over: return models, txn.Commit(ctx)
TxCommit ==
    /\ txn.pc = "execs" /\ txn.i = txn.n
    /\ \E err \in DriverOutcomes("Commit") :
          /\ log' = Append(log, Called("Commit", err))
          /\ txn' = [txn EXCEPT !.pc = "done", !.ret = Return(txn.models, err)]
    /\ UNCHANGED <<exprs, res, shared, renders>>

\* return nil, txn.Rollback(ctx, err); QueryAndExecOne returns model with it
TxRollback ==
    /\ txn.pc = "rollback"
    /\ \E rollbackErr \in DriverOutcomes("Rollback") :
          /\ log' = Append(log, [call |-> "Rollback", cause |-> txn.err, err |-> rollbackErr])
          /\ txn' = [txn EXCEPT
                        !.pc = "done",
                        !.ret = Return(IF txn.fn = "QueryAndExecOne" THEN txn.models
                                       ELSE NilModels,
                                       StdTxRollback(rollbackErr, txn.err))]
    /\ UNCHANGED <<exprs, res, shared, renders>>

\* Query: queryable, db.Query, scan.All
DBQuery ==
    /\ txn.pc = "idle"
    /\ \E fin \in Finalized, drvErr \in DriverOutcomes("Query"), out \in ScanAllOutcomes :
          LET err == StatementErr(fin, drvErr) IN
          /\ log' = <<Built(0)>> \o Statement("QueryContext", 0, fin, drvErr)
                        \o (IF err # NoErr THEN <<>> ELSE <<Called("Scan", out.err)>>)
          /\ txn' = [IdleTxn EXCEPT
                        !.fn = "Query", !.pc = "done", !.err = err,
                        !.ret = IF err # NoErr THEN Return(NilModels, err)
                                ELSE Return(out.models, out.err)]
    /\ UNCHANGED <<exprs, res, shared, renders>>

\* QueryOne: queryable, db.QueryRow, scan.One
DBQueryOne ==
    /\ txn.pc = "idle"
    /\ \E fin \in Finalized, drvErr \in DriverOutcomes("QueryRow") :
          \E out \in ScanOneOutcomes(RowScan(StatementRow(fin, drvErr))) :
              /\ log' = <<Built(0)>> \o Statement("QueryRowContext", 0, fin, drvErr)
                            \o <<Called("Scan", out.err)>>
              /\ txn' = [IdleTxn EXCEPT
                            !.fn = "QueryOne", !.pc = "done",
                            !.row = StatementRow(fin, drvErr),
                            !.ret = Return(out.models, out.err)]
    /\ UNCHANGED <<exprs, res, shared, renders>>

\* StdDB.Exec called on its own
DBExec ==
    /\ txn.pc = "idle"
    /\ \E fin \in Finalized, drvErr \in DriverOutcomes("Exec") :
          /\ log' = Statement("ExecContext", 1, fin, drvErr)
          /\ txn' = [IdleTxn EXCEPT
                        !.fn = "StdDB.Exec", !.pc = "done",
                        !.err = StatementErr(fin, drvErr),
                        !.ret = Return(NilModels, StatementErr(fin, drvErr))]
    /\ UNCHANGED <<exprs, res, shared, renders>>

\* the caller has the result
TxReturn ==
    /\ txn.pc = "done"
    /\ txn' = IdleTxn /\ log' = <<>>
    /\ UNCHANGED <<exprs, res, shared, renders>>

TxNext ==
    \/ TxBegin \/ TxQuery \/ TxQueryRow \/ TxScanAll \/ TxScanOne
    \/ TxExec \/ TxCommit \/ TxRollback
    \/ DBQuery \/ DBQueryOne \/ DBExec \/ TxReturn

TxSpec == TxInit /\ [][TxNext]_vars

\* ============================================================== properties
\* the vocabulary of the properties, read off the texts character by character

RECURSIVE Unescaped(_, _)
\* the number of unescaped markers of s from position i on ("??" is one escape)
Unescaped(s, i) ==
    IF i > Len(s) THEN 0
    ELSE IF s[i] # "?" THEN Unescaped(s, i + 1)
    ELSE IF i < Len(s) /\ s[i + 1] = "?" THEN Unescaped(s, i + 2)
    ELSE 1 + Unescaped(s, i + 1)

MarkerCount(s) == Unescaped(s, 1)

RECURSIVE Escapes(_, _)
\* the number of escapes "??" of s from position i on
Escapes(s, i) ==
    IF i > Len(s) THEN 0
    ELSE IF s[i] # "?" THEN Escapes(s, i + 1)
    ELSE IF i < Len(s) /\ s[i + 1] = "?" THEN 1 + Escapes(s, i + 2)
    ELSE Escapes(s, i + 1)

EscapeCount(s) == Escapes(s, 1)

RECURSIVE Subst(_, _, _, _, _)
\* s from position i on, its unescaped markers replaced by tok[n], tok[n+1], ...
\* and each escape by esc
Subst(s, i, n, tok, esc) ==
    IF i > Len(s) THEN <<>>
    ELSE IF s[i] # "?" THEN <<s[i]>> \o Subst(s, i + 1, n, tok, esc)
    ELSE IF i < Len(s) /\ s[i + 1] = "?" THEN esc \o Subst(s, i + 2, n, tok, esc)
    ELSE tok[n] \o Subst(s, i + 1, n + 1, tok, esc)

RECURSIVE Flatten(_, _)
\* the concatenation of the sequences q[i], q[i+1], ...
Flatten(q, i) == IF i > Len(q) THEN <<>> ELSE q[i] \o Flatten(q, i + 1)

\* the innermost error of a chain of Error wrappers
RECURSIVE Cause(_)
Cause(err) == IF err.kind = "Error" THEN Cause(err.Err) ELSE err

\* what each child of the Compiler or Joiner c returns under dialect d
ChildOuts(d, c) == [i \in 1..Len(c.Expressions) |-> ToSQL(d, c.Expressions[i])]

\* every child of c is there and renders
ChildrenRender(d, c) ==
    \A i \in 1..Len(c.Expressions) :
        c.Expressions[i].kind # "nil" /\ ~IsErr(ToSQL(d, c.Expressions[i]))

\* a call of the ToSQL method of a node of the given kind
Rendered(kind) == res.op = "ToSQL" /\ Target.kind = kind

\* C1: a Compiler whose template has exactly as many unescaped markers as it has
\* children, all of them non-nil and rendering, renders to its template with the
\* i-th marker replaced by the i-th child's text, and to the children's
\* arguments in child order.
C1_CompilerRender ==
    ( /\ Rendered("Compiler")
      /\ MarkerCount(Target.Template) = Len(Target.Expressions)
      /\ ChildrenRender(res.dialect, Target) )
    => LET outs == ChildOuts(res.dialect, Target) IN
       /\ ~IsErr(res.out)
       /\ res.out.sql = Subst(Target.Template, 1, 1,
                              [i \in 1..Len(outs) |-> outs[i].sql], <<"?", "?">>)
       /\ res.out.args = Flatten([i \in 1..Len(outs) |-> outs[i].args], 1)

\* two markers, two children with different arguments, rendered
C1_Witness ==
    /\ Rendered("Compiler")
    /\ MarkerCount(Target.Template) = 2
    /\ Len(Target.Expressions) = 2
    /\ res.out.args = <<2, 3, 1>>

\* the text a Replace or Finalize call read, when there is one: the text given to
\* Replace, or the lowered text of the tree given to Finalize
Lowered == ToSQL(res.dialect, Target)

Rewrote ==
    \/ res.op = "Replace"
    \/ res.op = "Finalize" /\ ~IsErr(Lowered)

Input == IF res.op = "Replace" THEN res.sql ELSE Lowered.sql

\* the rewritten text, as Replace returns it and as Finalize returns it or
\* reports it in its NumberOfArgumentsError
Output ==
    IF res.op = "Replace" THEN res.out.sql
    ELSE IF IsErr(res.out) THEN res.out.err.Err.SQL
    ELSE res.out.sql

\* the decimal numeral of a position below 100
Numeral(n) ==
    LET digits == <<"0", "1", "2", "3", "4", "5", "6", "7", "8", "9">> IN
    IF n < 10 THEN <<digits[n + 1]>> ELSE <<digits[(n \div 10) + 1], digits[(n % 10) + 1]>>

\* the token of the scheme p for position n: "?" (also for no scheme), "$n"
TokenAt(p, n) == IF p = Dollar THEN <<"$">> \o Numeral(n) ELSE <<"?">>

\* the literal marker of the scheme p: "??" when its token is "?", else "?"
LiteralMarker(p) == IF p = Dollar THEN <<"?">> ELSE <<"?", "?">>

\* C2: the rewrite replaces the n-th unescaped marker of the text it reads, n
\* counted from 1 in every call, by the scheme's token for position n: the same
\* token at every position under a static scheme, "$1", "$2", ..., "$m" in this
\* order under the positional scheme.
C2_PlaceholderRewrite ==
    Rewrote =>
        Output = Subst(Input, 1, 1,
                       [n \in 1..MarkerCount(Input) |-> TokenAt(res.placeholder, n)],
                       LiteralMarker(res.placeholder))

\* a tree that lowers to "?a?", finalized under the positional scheme
C2_Witness ==
    /\ res.op = "Finalize"
    /\ res.placeholder = Dollar
    /\ ~IsErr(res.out)
    /\ res.out.sql = <<"$", "1", "a", "$", "2">>

\* the number of placeholder tokens of a text rewritten under scheme p
TokenCount(p, s) ==
    IF p = Dollar THEN Cardinality({i \in 1..Len(s) : s[i] = "$"}) ELSE MarkerCount(s)

\* C3: Finalize of a tree that renders succeeds only if the number of unescaped
\* markers of the lowered text equals the number of collected arguments; when
\* they differ it fails with a NumberOfArgumentsError that holds the rewritten
\* text and both counts; a successful Finalize returns a text with exactly
\* len(arguments) placeholder tokens.
C3_FinalizeValidation ==
    (res.op = "Finalize" /\ ~IsErr(Lowered)) =>
        /\ ~IsErr(res.out) => MarkerCount(Lowered.sql) = Len(Lowered.args)
        /\ MarkerCount(Lowered.sql) # Len(Lowered.args) =>
              /\ Cause(res.out.err) =
                    NumberOfArgumentsError(
                        Subst(Lowered.sql, 1, 1,
                              [n \in 1..MarkerCount(Lowered.sql) |-> TokenAt(res.placeholder, n)],
                              LiteralMarker(res.placeholder)),
                        MarkerCount(Lowered.sql), Len(Lowered.args))
              /\ res.out.sql = <<>> /\ res.out.args = <<>>
        /\ ~IsErr(res.out) =>
              /\ res.out.args = Lowered.args
              /\ TokenCount(res.placeholder, res.out.sql) = Len(res.out.args)

\* a lowered text with fewer markers than arguments, refused by Finalize
C3_Witness ==
    /\ res.op = "Finalize"
    /\ ~IsErr(Lowered)
    /\ MarkerCount(Lowered.sql) < Len(Lowered.args)
    /\ Cause(res.out.err).kind = "NumberOfArgumentsError"

\* C7: the rewrite emits every escape "??" of the text it reads as "??" when the
\* scheme's token is exactly "?", and as "?" otherwise; an escape never counts as
\* a marker and takes no argument: a text with escapes and no marker is rewritten
\* to the same text with literal markers, and a tree that lowers to it finalizes
\* with zero arguments.
C7_EscapeRewrite ==
    Rewrote =>
        /\ res.op = "Replace" => res.out.count = MarkerCount(res.sql)
        /\ Len(Output) = Len(Input) - 2 * EscapeCount(Input) - MarkerCount(Input)
                          + EscapeCount(Input) * Len(LiteralMarker(res.placeholder))
                          + MarkerCount(Input) * Len(TokenAt(res.placeholder, 1))
        /\ MarkerCount(Input) = 0 =>
              /\ Output = Subst(Input, 1, 1, <<>>, LiteralMarker(res.placeholder))
              /\ (res.op = "Finalize" /\ ~IsErr(res.out)) => res.out.args = <<>>
              /\ (res.op = "Finalize" /\ Lowered.args = <<>>) => ~IsErr(res.out)

\* a template of one escape and no marker, finalized under "?" and under "$%d"
C7_Witness ==
    /\ res.op = "Finalize"
    /\ Target.kind = "Compiler"
    /\ EscapeCount(Target.Template) = 1
    /\ MarkerCount(Target.Template) = 0
    /\ ~IsErr(res.out)
    /\ res.out.sql \in {<<"a", "?">>, <<"a", "?", "?">>}

RECURSIVE EmittedArgs(_, _)
RECURSIVE EmittedArgsOf(_, _, _, _)
\* the arguments of the leaves that e emits under dialect d, depth first and left
\* to right; a Joiner emits the entries that are there and have a text
EmittedArgs(d, e) ==
    CASE e.kind = "Raw" -> e.Args
      [] e.kind = "Values" -> e.V
      [] e.kind = "Compiler" -> EmittedArgsOf(d, e.Expressions, 1, FALSE)
      [] e.kind = "Joiner" -> EmittedArgsOf(d, e.Expressions, 1, TRUE)
      [] e.kind = "Condition" -> EmittedArgs(d, IF e.If THEN e.Then ELSE e.Else)
      [] e.kind = "Switch" -> IF e.IsNil THEN <<>> ELSE EmittedArgs(d, e.M[d])
      [] OTHER -> <<>>

EmittedArgsOf(d, q, i, skipping) ==
    IF i > Len(q) THEN <<>>
    ELSE (IF skipping /\ (q[i].kind = "nil" \/ ToSQL(d, q[i]).sql = <<>>)
          THEN <<>> ELSE EmittedArgs(d, q[i]))
         \o EmittedArgsOf(d, q, i + 1, skipping)

RECURSIVE TokenNumbers(_, _)
\* the characters that follow the "$" of s, from position i on
TokenNumbers(s, i) ==
    IF i > Len(s) THEN <<>>
    ELSE IF s[i] = "$" /\ i < Len(s) THEN <<s[i + 1]>> \o TokenNumbers(s, i + 1)
    ELSE TokenNumbers(s, i + 1)

\* C4: the arguments a successful Finalize returns are the arguments of the
\* emitted leaves in depth-first, left-to-right order, and the i-th placeholder
\* token of the SQL is the token of position i, so it is bound to the i-th
\* argument.
C4_ArgumentOrder ==
    (res.op = "Finalize" /\ ~IsErr(res.out)) =>
        /\ res.out.args = EmittedArgs(res.dialect, Target)
        /\ TokenCount(res.placeholder, res.out.sql) = Len(res.out.args)
        /\ res.placeholder = Dollar =>
              TokenNumbers(res.out.sql, 1) =
                  [i \in 1..Len(res.out.args) |-> Numeral(i)[1]]

\* a nested tree with a leaf before and a leaf inside an inner tree, finalized
\* under the positional scheme
C4_Witness ==
    /\ res.op = "Finalize"
    /\ res.placeholder = Dollar
    /\ Depth(Target) = 2
    /\ ~IsErr(res.out)
    /\ res.out.args = <<2, 3, 1>>

RECURSIVE JoinTexts(_, _, _)
\* the texts q[i], q[i+1], ... with sep between two consecutive ones
JoinTexts(q, i, sep) ==
    IF i > Len(q) THEN <<>>
    ELSE IF i = Len(q) THEN q[i]
    ELSE q[i] \o sep \o JoinTexts(q, i + 1, sep)

\* the texts of the entries of the Joiner j that are there and have a text
EmittedTexts(d, j) ==
    LET texts == [i \in 1..Len(j.Expressions) |->
                     IF j.Expressions[i].kind = "nil" THEN <<>>
                     ELSE ToSQL(d, j.Expressions[i]).sql]
    IN  SelectSeq(texts, LAMBDA t : t # <<>>)

\* every entry of the Joiner j is nil or renders
EntriesRender(d, j) ==
    \A i \in 1..Len(j.Expressions) :
        j.Expressions[i].kind = "nil" \/ ~IsErr(ToSQL(d, j.Expressions[i]))

\* C5: the text of a Joiner is the texts of its emitted entries with the
\* separator between two consecutive emitted entries only, whatever entries are
\* skipped, the first one included.  Joiner.ToSQL violates it: it writes the
\* separator before every emitted entry whose index is not 0.
C5_JoinerSeparators ==
    (Rendered("Joiner") /\ EntriesRender(res.dialect, Target)) =>
        /\ ~IsErr(res.out)
        /\ res.out.sql = JoinTexts(EmittedTexts(res.dialect, Target), 1, Target.Sep)

Min(a, b) == IF a <= b THEN a ELSE b

\* the children that the scan of c's template reaches: one for each marker
Reached(c) == 1..Min(MarkerCount(c.Template), Len(c.Expressions))

\* the reached children that are nil or fail to render
BadChildren(d, c) ==
    {i \in Reached(c) : c.Expressions[i].kind = "nil" \/ IsErr(ToSQL(d, c.Expressions[i]))}

\* C6 as stated: a Compiler whose number of unescaped markers differs from its
\* number of children fails with a NumberOfArgumentsError.
C6_Original ==
    (Rendered("Compiler") /\ MarkerCount(Target.Template) # Len(Target.Expressions)) =>
        /\ IsErr(res.out)
        /\ Cause(res.out.err).kind = "NumberOfArgumentsError"

\* C6, amended: a Compiler whose number of unescaped markers differs from its
\* number of children never succeeds; it fails with a NumberOfArgumentsError
\* unless a child that the scan reaches is nil or fails to render, and then it
\* fails with the error of the first such child (an ExpressionError for nil).
C6_CountMismatch ==
    (Rendered("Compiler") /\ MarkerCount(Target.Template) # Len(Target.Expressions)) =>
        LET bad == BadChildren(res.dialect, Target) IN
        /\ IsErr(res.out)
        /\ res.out.sql = <<>> /\ res.out.args = <<>>
        /\ bad = {} => Cause(res.out.err).kind = "NumberOfArgumentsError"
        /\ bad # {} =>
              LET first == CHOOSE i \in bad : \A k \in bad : i <= k IN
              Cause(res.out.err) =
                  IF Target.Expressions[first].kind = "nil" THEN ExpressionError
                  ELSE Cause(ToSQL(res.dialect, Target.Expressions[first]).err)

\* a template without a marker and a Compiler with a child: a count error
C6_Witness ==
    /\ Rendered("Compiler")
    /\ MarkerCount(Target.Template) = 0
    /\ Len(Target.Expressions) >= 1
    /\ Cause(res.out.err).kind = "NumberOfArgumentsError"

\* C8: an escape "??" of the template takes no child: a Compiler whose children
\* are all there and render succeeds exactly when its number of children equals
\* its number of unescaped markers, and then every escape of the template is in
\* the output as "??": the output is as long as the template without its markers
\* plus the children's texts, and a template without markers is copied verbatim.
C8_CompilerEscapes ==
    (Rendered("Compiler") /\ ChildrenRender(res.dialect, Target)) =>
        LET outs == ChildOuts(res.dialect, Target) IN
        /\ ~IsErr(res.out) <=> MarkerCount(Target.Template) = Len(Target.Expressions)
        /\ ~IsErr(res.out) =>
              /\ Len(res.out.sql) =
                    Len(Target.Template) - MarkerCount(Target.Template)
                    + Len(Flatten([i \in 1..Len(outs) |-> outs[i].sql], 1))
              /\ MarkerCount(Target.Template) = 0 => res.out.sql = Target.Template

\* the template "???", an escape and a marker, rendered with its one child
C8_Witness ==
    /\ Rendered("Compiler")
    /\ EscapeCount(Target.Template) = 1
    /\ MarkerCount(Target.Template) = 1
    /\ Len(Target.Expressions) = 1
    /\ ~IsErr(res.out)
    /\ res.out.args = <<1>>

\* the Switch e has no entry for dialect d, or no mapping at all
Unmatched(d, e) == e.kind = "Switch" /\ (e.IsNil \/ e.M[d].kind = "absent")

C10_ConditionalLaw ==
    Rendered("Condition") =>
        LET selected == IF Target.If THEN Target.Then ELSE Target.Else
            alone == Method(res.dialect, selected)
        IN  IF selected.kind = "nil" THEN res.out = Ok(<<>>, <<>>, TRUE)
            ELSE /\ res.out.sql = alone.sql
                 /\ res.out.args = alone.args
                 /\ res.out.argsNil = alone.argsNil
                 /\ IsErr(res.out) = IsErr(alone)
                 /\ Cause(res.out.err) = Cause(alone.err)

\* If is false, Then is a Compiler that fails, Else renders with arguments
C10_Witness ==
    /\ Rendered("Condition")
    /\ ~Target.If
    /\ Target.Then.kind = "Compiler"
    /\ IsErr(Method(res.dialect, Target.Then))
    /\ ~IsErr(res.out)
    /\ res.out.args # <<>>

\* the entry e of a Joiner is skipped under dialect d: nil, or rendering to no text
Skipped(d, e) == e.kind = "nil" \/ (~IsErr(ToSQL(d, e)) /\ ToSQL(d, e).sql = <<>>)

\* the entry e of a Joiner is emitted under dialect d
Emitted(d, e) == e.kind # "nil" /\ ~IsErr(ToSQL(d, e)) /\ ToSQL(d, e).sql # <<>>

\* C11: a Joiner whose first entry is emitted and whose other entries are emitted
\* or skipped returns what the Joiner of its emitted entries returns, and for
\* the entries A, Skip, B its text is A's text, the separator, B's text:
\* Join(sep, A, Skip, B) returns the text and the arguments of Join(sep, A, B).
C11_JoinerSkipLaw ==
    ( /\ Rendered("Joiner")
      /\ Len(Target.Expressions) >= 2
      /\ Emitted(res.dialect, Target.Expressions[1])
      /\ \A i \in 2..Len(Target.Expressions) :
            \/ Emitted(res.dialect, Target.Expressions[i])
            \/ Skipped(res.dialect, Target.Expressions[i]) )
    => LET d == res.dialect
           kept == SelectSeq(Target.Expressions, LAMBDA e : Emitted(d, e))
           without == JoinerToSQL(d, Join(Target.Sep, kept))
       IN  /\ res.out.sql = without.sql
           /\ res.out.args = without.args
           /\ ~IsErr(res.out) /\ ~IsErr(without)
           /\ Len(kept) = 2 =>
                 res.out.sql = ToSQL(d, kept[1]).sql \o Target.Sep \o ToSQL(d, kept[2]).sql

\* Join(",", SQL("a"), SQL("", 4), SQL("?", 1)): the middle entry is skipped
C11_Witness ==
    /\ Rendered("Joiner")
    /\ Len(Target.Expressions) = 3
    /\ Target.Expressions[2] = Raw(<<>>, <<4>>)
    /\ Target.Sep = <<",">>
    /\ res.out.sql = <<"a", ",", "?">>
    /\ res.out.args = <<1>>

\* C12: the arguments of a Joiner whose entries are nil or render are those of
\* its emitted entries, in entry order; an entry that is nil or renders to no text
\* gives none, even when its render returned arguments.
C12_JoinerArguments ==
    (Rendered("Joiner") /\ EntriesRender(res.dialect, Target)) =>
        LET d == res.dialect
            given == [i \in 1..Len(Target.Expressions) |->
                         IF Emitted(d, Target.Expressions[i])
                         THEN ToSQL(d, Target.Expressions[i]).args ELSE <<>>]
        IN  /\ ~IsErr(res.out)
            /\ res.out.args = Flatten(given, 1)

\* an entry SQL("", 4) between two entries with arguments: its 4 is dropped
C12_Witness ==
    /\ Rendered("Joiner")
    /\ Len(Target.Expressions) = 3
    /\ Target.Expressions[2] = Raw(<<>>, <<4>>)
    /\ res.out.args = <<1, 1>>

\* the tokens in parentheses, with ", " between two of them
TupleText(tokens) == <<"(">> \o JoinTexts(tokens, 1, <<",", " ">>) \o <<")">>

\* C13: a Values of N >= 1 values renders, under every dialect, to "(" and N
\* markers with ", " between them and ")", with the N values as arguments in
\* input order; finalized, its markers become the tokens of positions 1..N.
C13_ValuesRender ==
    /\ (Rendered("Values") /\ Len(Target.V) >= 1) =>
          res.out = Ok(TupleText([i \in 1..Len(Target.V) |-> <<"?">>]), Target.V, FALSE)
    /\ (res.op = "Finalize" /\ Target.kind = "Values" /\ Len(Target.V) >= 1) =>
          /\ ~IsErr(res.out)
          /\ res.out.sql = TupleText([i \in 1..Len(Target.V) |-> TokenAt(res.placeholder, i)])
          /\ res.out.args = Target.V

\* Values{2, 1, 1} finalized under the positional scheme
C13_Witness ==
    /\ res.op = "Finalize"
    /\ res.placeholder = Dollar
    /\ Target = Values(<<2, 1, 1>>)
    /\ res.out.sql = <<"(", "$", "1", ",", " ", "$", "2", ",", " ", "$", "3", ")">>
    /\ res.out.args = <<2, 1, 1>>

\* C14: a Values of no value renders to "()" with no arguments and no error.
\* Values.ToSQL violates it: strings.Repeat(", ?", 0)[2:] slices the empty string
\* beyond its end and panics.
C14_EmptyTuple ==
    (Rendered("Values") /\ Target.V = <<>>) =>
        /\ ~IsErr(res.out)
        /\ res.out.sql = <<"(", ")">>
        /\ res.out.args = <<>>

\* the first child that the scan of c reaches and that is nil, when every child
\* before it renders; 0 when there is none
NilChild(d, c) ==
    LET nils == {i \in Reached(c) :
                    /\ c.Expressions[i].kind = "nil"
                    /\ \A k \in 1..(i - 1) : k \notin BadChildren(d, c)}
    IN  IF nils = {} THEN 0 ELSE CHOOSE i \in nils : TRUE

\* C15: a Compiler whose scan reaches a nil child fails with an ExpressionError
\* that names the Compiler as the place of the failure, so that it is not the
\* error of a nil expression met elsewhere (by ToSQL or Finalize), and the
\* children after the nil one are not rendered: they do not change the result.
\* Compiler.ToSQL violates it: its ExpressionError{} holds no place.
C15_CompilerNilChild ==
    (Rendered("Compiler") /\ NilChild(res.dialect, Target) # 0) =>
        LET i == NilChild(res.dialect, Target) IN
        /\ IsErr(res.out)
        /\ Cause(res.out.err).kind = "ExpressionError"
        /\ Cause(res.out.err) # Cause(ToSQL(res.dialect, Nil).err)
        /\ res.out = CompilerToSQL(res.dialect,
                        Compile(Target.Template, SubSeq(Target.Expressions, 1, i)))

C17_MismatchReport ==
    ( /\ Rendered("Compiler")
      /\ MarkerCount(Target.Template) # Len(Target.Expressions)
      /\ BadChildren(res.dialect, Target) = {} )
    => LET e == Cause(res.out.err)
           m == MarkerCount(Target.Template)
           n == Len(Target.Expressions)
           outs == ChildOuts(res.dialect, Target)
       IN  /\ e.kind = "NumberOfArgumentsError"
           /\ e.Arguments = n
           /\ e.Placeholders = IF m > n THEN n + 1 ELSE m
           /\ m < n => e.SQL = Subst(Target.Template, 1, 1,
                                     [i \in 1..n |-> outs[i].sql], <<"?", "?">>)

\* a call that returned an error value (a panic returns nothing)
Failed == res.op \in {"ToSQL", "Finalize"} /\ res.out.err.kind \notin {"nil", "panic"}

\* the first entry of the Joiner j that is rendered and fails, 0 when none does
FailingEntry(d, j) ==
    LET failing == {i \in 1..Len(j.Expressions) :
                       j.Expressions[i].kind # "nil" /\ IsErr(ToSQL(d, j.Expressions[i]))}
    IN  IF failing = {} THEN 0 ELSE CHOOSE i \in failing : \A k \in failing : i <= k

\* the first child that the scan of the Compiler c reaches and that is nil or
\* fails, 0 when there is none
FailingChild(d, c) ==
    LET bad == BadChildren(d, c)
    IN  IF bad = {} THEN 0 ELSE CHOOSE i \in bad : \A k \in bad : i <= k

\* C18: a render or a Finalize that returns an error returns no text and nil
\* arguments; a Compiler or a Joiner fails at its first failing child, with that
\* child's failure, and the children after it are not rendered: without them
\* the result is the same.
C18_NoPartialOutput ==
    /\ Failed => res.out.sql = <<>> /\ res.out.args = <<>> /\ res.out.argsNil
    /\ (Rendered("Joiner") /\ FailingEntry(res.dialect, Target) # 0) =>
          LET i == FailingEntry(res.dialect, Target) IN
          /\ IsErr(res.out)
          /\ Cause(res.out.err) = Cause(ToSQL(res.dialect, Target.Expressions[i]).err)
          /\ res.out = JoinerToSQL(res.dialect,
                          Join(Target.Sep, SubSeq(Target.Expressions, 1, i)))
    /\ (Rendered("Compiler") /\ FailingChild(res.dialect, Target) # 0) =>
          LET i == FailingChild(res.dialect, Target) IN
          /\ IsErr(res.out)
          /\ Cause(res.out.err) =
                IF Target.Expressions[i].kind = "nil" THEN ExpressionError
                ELSE Cause(ToSQL(res.dialect, Target.Expressions[i]).err)
          /\ res.out = CompilerToSQL(res.dialect,
                          Compile(Target.Template, SubSeq(Target.Expressions, 1, i)))

\* a Joiner whose first entry is a Compiler that fails and whose second entry
\* renders: the error is the Compiler's, nothing else is returned
C18_Witness ==
    /\ Rendered("Joiner")
    /\ Len(Target.Expressions) = 2
    /\ FailingEntry(res.dialect, Target) = 1
    /\ ~IsErr(ToSQL(res.dialect, Target.Expressions[2]))
    /\ Failed
    /\ Cause(res.out.err).kind = "NumberOfArgumentsError"

RECURSIVE Wrappers(_)
\* the number of Error wrappers around the innermost error
Wrappers(err) == IF err.kind = "Error" THEN 1 + Wrappers(err.Err) ELSE 0

RECURSIVE Failure(_, _)
\* the failure of the innermost node that fails when e is rendered under d: the
\* error that node makes itself, found by following the first failing child
Failure(d, e) ==
    LET own == Cause(Method(d, e).err)
        below(c) == IF c.kind \notin {"nil", "absent"} /\ IsErr(ToSQL(d, c))
                    THEN Failure(d, c) ELSE own
    IN  CASE e.kind = "Compiler" ->
                LET i == FailingChild(d, e) IN
                IF i = 0 THEN own ELSE below(e.Expressions[i])
          [] e.kind = "Joiner" ->
                LET i == FailingEntry(d, e) IN
                IF i = 0 THEN own ELSE below(e.Expressions[i])
          [] e.kind = "Condition" -> below(IF e.If THEN e.Then ELSE e.Else)
          [] e.kind = "Switch" -> IF e.IsNil THEN own ELSE below(e.M[d])
          [] OTHER -> Cause(ToSQL(d, e).err)

\* C19: the error a failing call returns holds, under its wrappers, the failure
\* of the innermost failing node, whatever the depth of that node, and its
\* message is that failure's message after one "esperanto.Error: ".
C19_InnermostError ==
    Failed =>
        LET inner == IF res.op = "Finalize" /\ ~IsErr(Lowered) THEN Cause(res.out.err)
                     ELSE Failure(res.dialect, Target)
        IN  /\ res.out.err.kind = "Error"
            /\ Cause(res.out.err) = inner
            /\ inner.kind \in {"ExpressionError", "NumberOfArgumentsError"}
            /\ Message(res.out.err) = <<"esperanto.Error: ">> \o Message(inner)

\* Finalize of a tree of depth 2 whose inner Compiler fails on its count: the
\* error comes up through four wrappers or more
C19_Witness ==
    /\ res.op = "Finalize"
    /\ Depth(Target) = 2
    /\ Failed
    /\ IsErr(Lowered)
    /\ Failure(res.dialect, Target).kind = "NumberOfArgumentsError"
    /\ Wrappers(res.out.err) >= 4

RECURSIVE Sum(_, _)
\* q[i] + q[i+1] + ...
Sum(q, i) == IF i > Len(q) THEN 0 ELSE q[i] + Sum(q, i + 1)

\* the number of unescaped markers in the texts of the children of c
ChildMarkers(d, c) ==
    Sum([i \in 1..Len(c.Expressions) |-> MarkerCount(ToSQL(d, c.Expressions[i]).sql)], 1)

\* a child of c renders to a text with a marker of its own
MarkerInChild(d, c) ==
    \E i \in 1..Len(c.Expressions) :
        /\ c.Expressions[i].kind = "Raw"
        /\ MarkerCount(c.Expressions[i].SQL) >= 1

\* C20: the markers in the texts of a Compiler's children are not slots of its
\* template: a Compiler that renders has taken one child for each unescaped
\* marker of its template, whatever markers the children's texts hold, and
\* these markers are the unescaped markers of the lowered text; Finalize counts
\* them against the arguments and rewrites each of them to a token.
C20_MarkersInChildText ==
    /\ (Rendered("Compiler") /\ ~IsErr(res.out)) =>
          /\ Len(Target.Expressions) = MarkerCount(Target.Template)
          /\ MarkerCount(res.out.sql) = ChildMarkers(res.dialect, Target)
    /\ (res.op = "Finalize" /\ Target.kind = "Compiler" /\ ~IsErr(Lowered)) =>
          /\ ~IsErr(res.out) <=> ChildMarkers(res.dialect, Target) = Len(Lowered.args)
          /\ ~IsErr(res.out) =>
                TokenCount(res.placeholder, res.out.sql) = ChildMarkers(res.dialect, Target)
          /\ IsErr(res.out) =>
                Cause(res.out.err).Placeholders = ChildMarkers(res.dialect, Target)

\* Compile("?a?", SQL("?", 1), SQL("?", 1)) finalized under the positional
\* scheme: the markers of the two children become $1 and $2
C20_Witness ==
    /\ res.op = "Finalize"
    /\ res.placeholder = Dollar
    /\ Target.kind = "Compiler"
    /\ Target.Template = <<"?", "a", "?">>
    /\ Target.Expressions = <<Raw(<<"?">>, <<1>>), Raw(<<"?">>, <<1>>)>>
    /\ MarkerInChild(res.dialect, Target)
    /\ res.out.sql = <<"$", "1", "a", "$", "2">>

RECURSIVE Resolve(_, _)
\* the tree e with every Switch replaced by what it selects under dialect d: its
\* entry for d, an empty SQL("") when it has none, a value that is no expression
\* when the entry is nil
Resolve(d, e) ==
    CASE e.kind \in {"Compiler", "Joiner"} ->
            [e EXCEPT !.Expressions =
                [i \in 1..Len(e.Expressions) |-> Resolve(d, e.Expressions[i])]]
      [] e.kind = "Condition" ->
            [e EXCEPT !.Then = Resolve(d, e.Then), !.Else = Resolve(d, e.Else)]
      [] e.kind = "Switch" ->
            IF e.IsNil \/ e.M[d].kind = "absent" THEN Raw(<<>>, <<>>)
            ELSE IF e.M[d].kind = "nil" THEN Invalid
            ELSE Resolve(d, e.M[d])
      [] OTHER -> e

RECURSIVE HasSwitch(_)
\* a Switch with two different entries is somewhere below e
HasSwitch(e) ==
    \/ e.kind = "Switch" /\ ~e.IsNil /\ e.M["postgres"] # e.M["sqlite"]
    \/ \E i \in 1..Len(Children(e)) : HasSwitch(Children(e)[i])

\* two results agree in text, arguments, failure and innermost error
SameOutcome(a, b) ==
    /\ a.sql = b.sql
    /\ a.args = b.args
    /\ IsErr(a) = IsErr(b)
    /\ Cause(a.err) = Cause(b.err)

\* C21: a render or a Finalize under dialect d gives every node of the tree the
\* dialect d: the result is that of the tree in which every Switch, at any
\* depth, is replaced by its entry for d, and that tree, which has no Switch,
\* gives this result under every dialect.
C21_DialectPropagation ==
    (res.op \in {"ToSQL", "Finalize"} /\ Target.kind # "nil") =>
        LET resolved == Resolve(res.dialect, Target) IN
        \A d \in Dialects :
            SameOutcome(res.out,
                        IF res.op = "ToSQL" THEN Method(d, resolved)
                        ELSE Finalize(res.placeholder, d, resolved))

\* Finalize under sqlite of a tree of depth 2 around a Switch whose entries for
\* postgres and sqlite differ: the arguments are those of the sqlite entry
C21_Witness ==
    /\ res.op = "Finalize"
    /\ res.dialect = "sqlite"
    /\ Depth(Target) = 2
    /\ Target.kind \in {"Compiler", "Joiner"}
    /\ HasSwitch(Target)
    /\ ~IsErr(res.out)
    /\ res.out.args # Finalize(res.placeholder, "postgres", Target).args

RECURSIVE SwitchFree(_)
\* no Switch is in the tree e
SwitchFree(e) ==
    /\ e.kind # "Switch"
    /\ \A i \in 1..Len(Children(e)) : SwitchFree(Children(e)[i])

\* the text s is the text lowered with its k-th unescaped marker replaced by
\* the k-th token of the scheme p
TokensInPlace(p, lowered, s) ==
    s = Subst(lowered, 1, 1, [k \in 1..MarkerCount(lowered) |-> TokenAt(p, k)],
              LiteralMarker(p))

\* the scheme that belongs to a dialect of the model: "$%d" for postgres, "?" for
\* sqlite
SchemeOf(d) == IF d = "postgres" THEN Dollar ELSE Question

\* C22: dialect.Finalize of one tree under two dialects: each result that
\* succeeds has one token of its dialect's scheme for each argument, the k-th
\* marker of the lowered text being the k-th token ("$k" for postgres, "?" for
\* sqlite); when the tree emits as many argument leaves under both dialects the
\* two results have as many arguments and tokens, and a tree without a Switch
\* succeeds or fails under both, with the same arguments and the tokens at the
\* same places of the same lowered text.
C22_DialectRoundTrip ==
    res.op = "DialectFinalize" =>
        \A d \in Dialects \ {res.dialect} :
            LET a == res.out
                b == DialectFinalize(d, Target)
                la == ToSQL(res.dialect, Target)
                lb == ToSQL(d, Target)
                pa == SchemeOf(res.dialect)
                pb == SchemeOf(d)
            IN  /\ ~IsErr(a) =>
                      /\ TokensInPlace(pa, la.sql, a.sql)
                      /\ TokenCount(pa, a.sql) = Len(a.args)
                      /\ res.dialect = "postgres" =>
                            TokenNumbers(a.sql, 1) = [k \in 1..Len(a.args) |-> Numeral(k)[1]]
                /\ (/\ ~IsErr(a) /\ ~IsErr(b)
                    /\ Len(EmittedArgs(res.dialect, Target)) = Len(EmittedArgs(d, Target))) =>
                      /\ Len(a.args) = Len(b.args)
                      /\ TokenCount(pa, a.sql) = TokenCount(pb, b.sql)
                /\ (Target.kind # "nil" /\ SwitchFree(Target)) =>
                      /\ IsErr(a) = IsErr(b)
                      /\ a.args = b.args
                      /\ la.sql = lb.sql
                      /\ ~IsErr(a) => TokensInPlace(pb, la.sql, b.sql)

\* Postgres.Finalize of a tree that lowers to "?a?" with two arguments: "$1a$2",
\* where Sqlite.Finalize gives "?a?"
C22_Witness ==
    /\ res.op = "DialectFinalize"
    /\ res.dialect = "postgres"
    /\ res.out.sql = <<"$", "1", "a", "$", "2">>
    /\ DialectFinalize("sqlite", Target).sql = <<"?", "a", "?">>
    /\ Len(res.out.args) = 2

\* the fragment r has as many unescaped markers as arguments
Balanced(r) == MarkerCount(r.sql) = Len(r.args)

\* C24: a Joiner whose entries all render to fragments with as many unescaped
\* markers as arguments renders, with every separator, the empty one included,
\* to such a fragment, and its Finalize succeeds.  Joiner.ToSQL violates it:
\* with the empty separator two entries "?" are written as "??", which reads as
\* an escape.
C24_BalanceUnderJoining ==
    ( /\ res.op \in {"ToSQL", "Finalize"}
      /\ Target.kind = "Joiner"
      /\ \A i \in 1..Len(Target.Expressions) :
            \/ Target.Expressions[i].kind = "nil"
            \/ /\ ~IsErr(ToSQL(res.dialect, Target.Expressions[i]))
               /\ Balanced(ToSQL(res.dialect, Target.Expressions[i])) )
    => LET joined == JoinerToSQL(res.dialect, Target) IN
       /\ ~IsErr(joined)
       /\ Balanced(joined)
       /\ ~IsErr(res.out)

Returned == {p \in Callers : renders[p].pc = "done"}

\* C23: rendering never changes a node of a shared tree, and every render
\* that returns, however its passes were interleaved with those of the other
\* renders and whatever their dialects, returns what Compiler.ToSQL returns
\* for the tree under its dialect when it runs alone.
C23_SharedTrees ==
    /\ [][shared' = shared]_vars
    /\ [](\A p \in Returned : renders[p].out = CompilerToSQL(renders[p].dialect, shared))

\* one render has returned a text with arguments while another, under a
\* different dialect, is in the middle of the template
C23_Witness ==
    /\ renders["r1"].pc = "done" /\ ~IsErr(renders["r1"].out)
    /\ renders["r1"].out.args # <<>>
    /\ renders["r2"].pc = "loop" /\ renders["r2"].dialect # renders["r1"].dialect
    /\ renders["r2"].exprIndex >= 0 /\ renders["r2"].c.Template # <<>>
    /\ IsErr(CompilerToSQL(renders["r2"].dialect, shared))

\* ------------------------------------------------------- C25 .. C29
\* the positions of the log where call was made
Calls(call) == {k \in 1..Len(log) : log[k].call = call}

Statements == {"QueryContext", "QueryRowContext", "ExecContext"}

\* the steps of a transaction: the query, the scan, the executables
StepFailedAt(k) ==
    /\ log[k].call \in {"Finalize", "QueryContext", "ExecContext", "Scan"}
    /\ log[k].err # NoErr

StepFailures == {k \in 1..Len(log) : StepFailedAt(k)}

InTransaction == txn.fn \in Transactions

BeginFailed == log # <<>> /\ log[1].call = "Begin" /\ log[1].err # NoErr

Brackets == Calls("Commit") \cup Calls("Rollback")

\* C25: a transaction that could not begin returns the error of Begin and
\* calls nothing else; one that began calls exactly one of Commit and
\* Rollback, once, as its last call before it returns; Commit only after the
\* query, the scan and all executables succeeded, Rollback only after a
\* failure of one of them.
C25_TransactionBracket ==
    InTransaction =>
        /\ Calls("Begin") = {1}
        /\ BeginFailed => /\ Len(log) = 1 /\ txn.pc = "done"
                          /\ txn.ret.err = log[1].err
        /\ txn.pc # "done" => Brackets = {}
        /\ txn.pc = "done" /\ ~BeginFailed => Brackets = {Len(log)}
        /\ Calls("Commit") # {} =>
              /\ StepFailures = {}
              /\ Cardinality(Calls("ExecContext")) = txn.n
              /\ txn.fn # "Exec" =>
                    /\ Cardinality(Calls("Scan")) = 1
                    /\ Calls("QueryContext") \cup Calls("QueryRowContext") # {}
        /\ Calls("Rollback") # {} => StepFailures # {}

\* QueryAndExec has returned after the Rollback that followed the failure of
\* its second executable
C25_Witness ==
    /\ txn.fn = "QueryAndExec" /\ txn.pc = "done" /\ txn.n = 2
    /\ Calls("Rollback") # {} /\ Cardinality(Calls("ExecContext")) = 2

\* the executables built so far, in the order of their building
BuiltAt == {k \in 1..Len(log) : log[k].call = "Build" /\ log[k].what > 0}

\* C26: the executables are built and executed one after the other in the
\* order given, each before the next is built; after a failing executable
\* nothing more is built or executed; with a query, no executable is built
\* before the scan of its rows succeeded.
C26_ExecOrdering ==
    InTransaction =>
        /\ \A k \in BuiltAt :
              /\ log[k].what = Cardinality({j \in BuiltAt : j <= k})
              /\ k < Len(log) /\ log[k + 1].call = "Finalize"
              /\ log[k + 1].what = log[k].what
              /\ \A j \in 1..(k - 1) : ~(StepFailedAt(j) /\ log[j].what > 0)
              /\ \A j \in 1..(k - 1) : log[j].call = "ExecContext" => log[j].what < log[k].what
              /\ log[k].what > 1 =>
                    \E j \in 1..(k - 1) : /\ log[j].call = "ExecContext"
                                          /\ log[j].what = log[k].what - 1
                                          /\ log[j].err = NoErr
              /\ txn.fn # "Exec" =>
                    \E j \in 1..(k - 1) : log[j].call = "Scan" /\ log[j].err = NoErr
        /\ \A k \in Calls("ExecContext") :
              /\ \E j \in BuiltAt : j < k /\ log[j].what = log[k].what
              /\ \A j \in 1..(k - 1) : ~StepFailedAt(j)
        /\ \A k \in Calls("ExecContext") \cup BuiltAt : 1 < k /\ Brackets \cap (1..k) = {}

\* the first of two executables failed in the driver and the call has returned
C26_Witness ==
    /\ InTransaction /\ txn.pc = "done" /\ txn.n = 2
    /\ \E k \in Calls("ExecContext") : log[k].what = 1 /\ log[k].err # NoErr

\* C27: QueryAndExec returns a non-nil model list only with a nil error
C27_NoModelsOnFailure ==
    txn.fn = "QueryAndExec" /\ txn.pc = "done" /\ txn.ret.err # NoErr
        => txn.ret.models.nil

\* the failure a rolled back transaction has met: its last call before Rollback
CauseAt(k) == log[k - 1].err

\* the original failure as a caller recovers it from the error returned
Recovered(err) == IF err.kind = "RollbackError" THEN Unwrap(err) ELSE err

\* C28: Rollback is called with the error of the failed step; the call
\* returns that error when the driver rollback succeeds and otherwise a
\* RollbackError with the rollback failure as Err and that error as Unwrap.
\* The caller gets a non-nil error that gives the failure of the step back.
C28_RollbackKeepsCause ==
    InTransaction /\ txn.pc = "done" =>
        \A k \in Calls("Rollback") :
            /\ StepFailedAt(k - 1)
            /\ log[k].cause = CauseAt(k)
            /\ txn.ret.err # NoErr
            /\ log[k].err = NoErr => txn.ret.err = CauseAt(k)
            /\ log[k].err # NoErr =>
                  /\ txn.ret.err.kind = "RollbackError"
                  /\ txn.ret.err.Err = log[k].err
                  /\ Unwrap(txn.ret.err) = CauseAt(k)
            /\ Recovered(txn.ret.err) = CauseAt(k)

\* an executable failed in the driver and the driver rollback failed too
C28_Witness ==
    /\ txn.pc = "done" /\ txn.fn = "Exec"
    /\ \E k \in Calls("Rollback") : log[k].err # NoErr /\ log[k - 1].call = "ExecContext"

\* the Finalize calls that failed
FinalizeFailures == {k \in Calls("Finalize") : IsErr(log[k].out)}

\* C29: a statement reaches the driver only straight after a successful
\* Finalize of its expression, with the text and the arguments Finalize
\* returned; after a failed Finalize no statement is sent and the method
\* returns the error of Finalize, QueryRow through the Scan of its row.
C29_FinalizeGate ==
    /\ \A k \in 1..Len(log) : log[k].call \in Statements =>
          /\ k > 1 /\ log[k - 1].call = "Finalize" /\ ~IsErr(log[k - 1].out)
          /\ log[k - 1].what = log[k].what
          /\ log[k].sql = log[k - 1].out.sql /\ log[k].args = log[k - 1].out.args
    /\ \A k \in FinalizeFailures :
          /\ \A j \in (k + 1)..Len(log) : log[j].call \notin Statements
          /\ k = Len(log) /\ txn.fn \in {"QueryAndExec", "Exec"} =>
                txn.pc = "rollback" /\ txn.err = log[k].out.err
          /\ k = Len(log) /\ txn.fn \in {"Query", "StdDB.Exec"} =>
                txn.ret.err = log[k].out.err
          /\ k = Len(log) /\ txn.fn = "QueryAndExecOne" /\ log[k].what = 0 =>
                /\ txn.row = RowError(log[k].out.err)
                /\ RowScan(txn.row) = log[k].out.err
          /\ k = Len(log) /\ txn.fn = "QueryAndExecOne" /\ log[k].what > 0 =>
                txn.pc = "rollback" /\ txn.err = log[k].out.err
          /\ txn.fn = "QueryOne" =>
                /\ txn.row = RowError(log[k].out.err)
                /\ RowScan(txn.row) = log[k].out.err
                /\ txn.ret.err = log[k].out.err

\* QueryAndExecOne has sent its query and an executable with an argument,
\* and the Finalize of its second executable has failed
C29_Witness ==
    /\ txn.fn = "QueryAndExecOne"
    /\ \E k \in Calls("ExecContext") : log[k].args # <<>>
    /\ \E k \in Calls("QueryRowContext") : log[k].sql = <<"a">>
    /\ \E k \in FinalizeFailures : log[k].what = 2

====
